---- MODULE Spec2Model ----
(***************************************************************************)
(* Model of the nurse sleep-schedule classifier: the Schedule held by App, *)
(* the add-work-day form (ScheduleForm), the reset handler, the            *)
(* classification of a date (getSleepRecommendation), the projection       *)
(* (allScheduledDays) and the chore-day flag (isChoreDay).                 *)
(*                                                                         *)
(* A calendar date is modelled by its day number (an integer); the time of *)
(* day, which isSameDay ignores, is left out.  A label such as             *)
(* 'Night Shift Work Day' is the sequence of its words, so that            *)
(* String.includes is a real search.  The first line of a recommendation,  *)
(* 'Sleep: 10:00 PM - 6:00 AM (8 hours)', is a record of its parts, so     *)
(* that the split/parse chain of isChoreDay is computed, not assumed.      *)
(***************************************************************************)
EXTENDS Integers, Sequences, FiniteSets, TLC

\* ------------------------------------------------------------------ bounds
\* The date picker offers the days 1..MaxDate.
MaxDate == 3
\* The user enters at most MaxWorkDays work days before resetting.
MaxWorkDays == 3

Dates == 1..MaxDate
ShiftTypes == {"day", "night"}

\* null / undefined of the source.  A nullable value is the empty tuple when
\* it is null and the one-element tuple <<v>> when it holds v.
NULL == <<>>
Some(v) == <<v>>
ValueOf(opt) == opt[1]

VARIABLES
    schedule,      \* App: useState<Schedule>
    selectedDate,  \* ScheduleForm: useState<Date | null>
    shiftType,     \* ScheduleForm: useState<'day' | 'night'>
    last           \* the last command and the snapshot (prev) it was applied to

vars == <<schedule, selectedDate, shiftType, last>>

\* ------------------------------------------------------------- date-fns
isSameDay(a, b) == a = b
addDays(d, n) == d + n

\* ------------------------------------------------------------- App state
EmptySchedule ==
    [workDays |-> <<>>, recoveryDays |-> <<>>, productiveDays |-> <<>>,
     secondJobDays |-> <<>>, preparationDays |-> <<>>]

\* Array.prototype.some
some(arr, P(_)) == \E i \in 1..Len(arr) : P(arr[i])

\* Array.prototype.filter
filter(arr, P(_)) == SelectSeq(arr, P)

\* Array.prototype.find: the first element satisfying P, or undefined
find(arr, P(_)) ==
    IF \E i \in 1..Len(arr) : P(arr[i])
    THEN Some(arr[CHOOSE i \in 1..Len(arr) :
                      P(arr[i]) /\ \A j \in 1..(i - 1) : ~P(arr[j])])
    ELSE NULL

\* ------------------------------------------------- ScheduleForm: add logic
\* variant: the duplicate check is missing
workDayExists_never(p, sel) == FALSE

workDayExists(p, sel) ==
    LET same(wd) == isSameDay(wd.date, sel) IN some(p.workDays, same)

\* variant: the recovery day is taken two days after the work day
recoveryDay_twoAfter(sel) == addDays(sel, 2)

\* variant: the chore day is taken three days before the work day
choreDay_threeBefore(sel) == addDays(sel, -3)

recoveryDay(sel) == addDays(sel, 1)
preparationDay(sel) == addDays(sel, -1)
choreDay(sel) == addDays(sel, -2)

\* variant: the check forgets the preparation days
hasAnySchedule_skipsPreparation(p, date) ==
    LET sameWd(wd) == isSameDay(wd.date, date)
        sameD(d) == isSameDay(d, date)
    IN  \/ some(p.workDays, sameWd)
        \/ some(p.recoveryDays, sameD)
        \/ some(p.productiveDays, sameD)
        \/ some(p.secondJobDays, sameD)

\* variant: the check forgets the work days
hasAnySchedule_skipsWorkDays(p, date) ==
    LET sameD(d) == isSameDay(d, date)
    IN  \/ some(p.recoveryDays, sameD)
        \/ some(p.preparationDays, sameD)
        \/ some(p.productiveDays, sameD)
        \/ some(p.secondJobDays, sameD)

hasAnySchedule(p, date) ==
    LET sameWd(wd) == isSameDay(wd.date, date)
        sameD(d) == isSameDay(d, date)
    IN  \/ some(p.workDays, sameWd)
        \/ some(p.recoveryDays, sameD)
        \/ some(p.preparationDays, sameD)
        \/ some(p.productiveDays, sameD)
        \/ some(p.secondJobDays, sameD)

\* variant: the conflicting date is not filtered out
filteredDays_keepsAll(days, sel) == days

\* prev.xDays.filter(d => !isSameDay(d, selectedDate))
filteredDays(days, sel) ==
    LET other(d) == ~isSameDay(d, sel) IN filter(days, other)

\* the updater passed to setSchedule: prev => next
handleAddWorkDayUpdater(p, sel, st) ==
    IF workDayExists(p, sel)
    THEN p
    ELSE LET newWorkDay == [date |-> sel, shiftType |-> st]
             newRecoveryDays ==
                 filteredDays(p.recoveryDays, sel) \o
                 (IF ~hasAnySchedule(p, recoveryDay(sel))
                  THEN <<recoveryDay(sel)>> ELSE <<>>)
             newPreparationDays ==
                 filteredDays(p.preparationDays, sel) \o
                 (IF ~hasAnySchedule(p, preparationDay(sel))
                  THEN <<preparationDay(sel)>> ELSE <<>>)
             newProductiveDays ==
                 filteredDays(p.productiveDays, sel) \o
                 (IF ~hasAnySchedule(p, choreDay(sel))
                  THEN <<choreDay(sel)>> ELSE <<>>)
         IN  [workDays |-> Append(p.workDays, newWorkDay),
              recoveryDays |-> newRecoveryDays,
              preparationDays |-> newPreparationDays,
              productiveDays |-> newProductiveDays,
              secondJobDays |-> filteredDays(p.secondJobDays, sel)]

\* variant: the controls are enabled only from the second work day on
hasWorkDays_moreThanOne == Len(schedule.workDays) > 1

hasWorkDays == Len(schedule.workDays) > 0

\* ------------------------------------------- recommendation table (details)
\* A clock label 'h:mm aa': hour of the 12-hour clock, minutes, meridiem.
\* The meridiem is "" when the text carries none.
Clock(h, m, aa) == [h |-> h, m |-> m, aa |-> aa]

\* 'Sleep: <from> - <to> (8 hours)'
SleepLine(from, to) ==
    [label |-> "Sleep", from |-> from, to |-> to, note |-> "(8 hours)"]

NightWorkDetails ==
    <<SleepLine(Clock(9, 0, "AM"), Clock(5, 0, "PM")),
      "Wake up at 5:00 PM, have a light meal",
      "Start shift at 7:00 PM",
      "Stay hydrated throughout your shift">>

DayWorkDetails ==
    <<SleepLine(Clock(10, 0, "PM"), Clock(6, 0, "AM")),
      "Wake up at 6:00 AM, have breakfast",
      "Start shift at 7:00 AM",
      "Stay hydrated and take regular breaks">>

NightRecoveryDetails ==
    <<SleepLine(Clock(8, 0, "AM"), Clock(4, 0, "PM")),
      "Optional nap: 7:00 PM - 8:00 PM",
      "Light dinner at 8:30 PM",
      "Stay hydrated and eat nutritious meals">>

DayRecoveryDetails ==
    <<SleepLine(Clock(10, 0, "PM"), Clock(6, 0, "AM")),
      "Optional nap: 2:00 PM - 3:00 PM",
      "Light exercise in the morning",
      "Stay hydrated and eat balanced meals">>

NightPreparationDetails ==
    <<SleepLine(Clock(11, 0, "PM"), Clock(7, 0, "AM")),
      "Optional nap: 2:00 PM - 3:00 PM",
      "Avoid caffeine after 2:00 PM",
      "Prepare meals and clothes for night shift">>

DayPreparationDetails ==
    <<SleepLine(Clock(10, 0, "PM"), Clock(6, 0, "AM")),
      "Avoid caffeine after noon",
      "Prepare meals and clothes for morning",
      "Set out work clothes and supplies">>

RegularDetails ==
    <<SleepLine(Clock(10, 0, "PM"), Clock(6, 0, "AM")),
      "Exercise in the morning or afternoon",
      "Limit caffeine after noon",
      "Maintain regular meal times">>

\* ------------------------------------------------ labels as word sequences
NightShiftWorkDay == <<"Night", "Shift", "Work", "Day">>
DayShiftWorkDay == <<"Day", "Shift", "Work", "Day">>
NightShiftRecoveryDay == <<"Night", "Shift", "Recovery", "Day">>
DayShiftRecoveryDay == <<"Day", "Shift", "Recovery", "Day">>
NightShiftPreparationDay == <<"Night", "Shift", "Preparation", "Day">>
DayShiftPreparationDay == <<"Day", "Shift", "Preparation", "Day">>
RegularDay == <<"Regular", "Day">>
RecoveryDayLabel == <<"Recovery", "Day">>
PreparationDayLabel == <<"Preparation", "Day">>

\* String.prototype.includes, on word sequences
includes(type, sub) ==
    \E i \in 0..(Len(type) - Len(sub)) :
        SubSeq(type, i + 1, i + Len(sub)) = sub

\* ---------------------------- SleepRecommendation: getSleepRecommendation
\* workDays.find(wd => isSameDay(wd.date, date))
\* variant: the work-day lookup is off by one day
findWorkDayOn_dayAfter(s, date) ==
    LET same(wd) == isSameDay(addDays(wd.date, 1), date)
    IN  find(s.workDays, same)

findWorkDayOn(s, date) ==
    LET same(wd) == isSameDay(wd.date, date) IN find(s.workDays, same)

\* workDays.find(wd => isSameDay(wd.date, date)
\*                     || isSameDay(addDays(wd.date, -1), date))
findRecoveryWorkDay(s, date) ==
    LET match(wd) == \/ isSameDay(wd.date, date)
                     \/ isSameDay(addDays(wd.date, -1), date)
    IN  find(s.workDays, match)

\* workDays.find(wd => isSameDay(wd.date, date)
\*                     || isSameDay(addDays(wd.date, 1), date))
findPreparationWorkDay(s, date) ==
    LET match(wd) == \/ isSameDay(wd.date, date)
                     \/ isSameDay(addDays(wd.date, 1), date)
    IN  find(s.workDays, match)

\* workDay?.shiftType === 'night'
isNight(workDay) ==
    workDay # NULL /\ ValueOf(workDay).shiftType = "night"

inDays(days, date) ==
    LET same(d) == isSameDay(d, date) IN some(days, same)

getSleepRecommendation(s, date) ==
    LET workDay == findWorkDayOn(s, date) IN
    IF workDay # NULL
    THEN IF ValueOf(workDay).shiftType = "night"
         THEN [recommendation |-> NightShiftWorkDay,
               details |-> NightWorkDetails]
         ELSE [recommendation |-> DayShiftWorkDay,
               details |-> DayWorkDetails]
    ELSE IF inDays(s.recoveryDays, date)
    THEN IF isNight(findRecoveryWorkDay(s, date))
         THEN [recommendation |-> NightShiftRecoveryDay,
               details |-> NightRecoveryDetails]
         ELSE [recommendation |-> DayShiftRecoveryDay,
               details |-> DayRecoveryDetails]
    ELSE IF inDays(s.preparationDays, date)
    THEN IF isNight(findPreparationWorkDay(s, date))
         THEN [recommendation |-> NightShiftPreparationDay,
               details |-> NightPreparationDetails]
         ELSE [recommendation |-> DayShiftPreparationDay,
               details |-> DayPreparationDetails]
    ELSE [recommendation |-> RegularDay, details |-> RegularDetails]

\* App: getSleepRecommendation (the copy used by the export; details only)
AppGetSleepRecommendation(s, date) ==
    LET workDay == findWorkDayOn(s, date) IN
    IF workDay # NULL
    THEN IF ValueOf(workDay).shiftType = "night"
         THEN [details |-> NightWorkDetails]
         ELSE [details |-> DayWorkDetails]
    ELSE IF inDays(s.recoveryDays, date)
    THEN IF isNight(findRecoveryWorkDay(s, date))
         THEN [details |-> NightRecoveryDetails]
         ELSE [details |-> DayRecoveryDetails]
    ELSE IF inDays(s.preparationDays, date)
    THEN IF isNight(findPreparationWorkDay(s, date))
         THEN [details |-> NightPreparationDetails]
         ELSE [details |-> DayPreparationDetails]
    ELSE [details |-> RegularDetails]

\* ------------------------------------------------- allScheduledDays
\* Array.prototype.map
map(arr, f(_)) == [i \in 1..Len(arr) |-> f(arr[i])]

\* insertion of one row behind every row that does not compare greater
\* variant: the comparator is reversed
RECURSIVE insertSorted_descending(_, _)
insertSorted_descending(sorted, row) ==
    IF sorted = <<>> THEN <<row>>
    ELSE IF row.date - Head(sorted).date > 0
         THEN <<row>> \o sorted
         ELSE <<Head(sorted)>> \o insertSorted_descending(Tail(sorted), row)

RECURSIVE insertSorted(_, _)
insertSorted(sorted, row) ==
    IF sorted = <<>> THEN <<row>>
    ELSE IF Head(sorted).date - row.date > 0
         THEN <<row>> \o sorted
         ELSE <<Head(sorted)>> \o insertSorted(Tail(sorted), row)

\* Array.prototype.sort((a, b) => a.date.getTime() - b.date.getTime()):
\* a stable sort by date
RECURSIVE sortByDate(_)
sortByDate(rows) ==
    IF rows = <<>> THEN <<>>
    ELSE insertSorted(sortByDate(SubSeq(rows, 1, Len(rows) - 1)),
                      rows[Len(rows)])

allScheduledDays(s) ==
    LET workRow(workDay) ==
            [date |-> workDay.date,
             type |-> <<IF workDay.shiftType = "night" THEN "Night" ELSE "Day",
                        "Shift", "Work", "Day">>]
        recoveryRow(date) == [date |-> date, type |-> RecoveryDayLabel]
        preparationRow(date) == [date |-> date, type |-> PreparationDayLabel]
        productiveRow(date) == [date |-> date, type |-> RegularDay]
    IN  sortByDate(map(s.workDays, workRow) \o
                   map(s.recoveryDays, recoveryRow) \o
                   map(s.preparationDays, preparationRow) \o
                   map(s.productiveDays, productiveRow))

\* variant: the projection leaves the productive days out
AppAllScheduledDays_withoutProductive(s) ==
    LET workRow(workDay) ==
            [date |-> workDay.date,
             type |-> <<IF workDay.shiftType = "night" THEN "Night" ELSE "Day",
                        "Shift", "Work", "Day">>]
        recoveryRow(date) == [date |-> date, type |-> RecoveryDayLabel]
        preparationRow(date) == [date |-> date, type |-> PreparationDayLabel]
    IN  sortByDate(map(s.workDays, workRow) \o
                   map(s.recoveryDays, recoveryRow) \o
                   map(s.preparationDays, preparationRow))

\* App: allScheduledDays (the copy the export reads)
AppAllScheduledDays(s) ==
    LET workRow(workDay) ==
            [date |-> workDay.date,
             type |-> <<IF workDay.shiftType = "night" THEN "Night" ELSE "Day",
                        "Shift", "Work", "Day">>]
        recoveryRow(date) == [date |-> date, type |-> RecoveryDayLabel]
        preparationRow(date) == [date |-> date, type |-> PreparationDayLabel]
        productiveRow(date) == [date |-> date, type |-> RegularDay]
    IN  sortByDate(map(s.workDays, workRow) \o
                   map(s.recoveryDays, recoveryRow) \o
                   map(s.preparationDays, preparationRow) \o
                   map(s.productiveDays, productiveRow))

\* ------------------------------------------------------------- isChoreDay
\* getHours() of an Invalid Date
NaN == -1

\* parse(text, 'h:mm aa', baseDate).getHours(): the hour on the 24-hour
\* clock, or NaN when the text has no meridiem for the 'aa' token
parseHours(clock) ==
    IF clock.aa = "" THEN NaN
    ELSE (clock.h % 12) + (IF clock.aa = "PM" THEN 12 ELSE 0)

\* sleepDetail.split(': ')[1].split(' - ')
timeRange(sleepDetail) ==
    <<sleepDetail.from, [clock |-> sleepDetail.to, rest |-> sleepDetail.note]>>

\* timeRange[1].split(' ')[0]: the text up to the first blank, which is the
\* clock value without its meridiem
firstWord(part) == Clock(part.clock.h, part.clock.m, "")

businessStart == 9
businessEnd == 17

\* comparisons with NaN are false
geq(a, b) == a # NaN /\ b # NaN /\ a >= b
lt(a, b) == a # NaN /\ b # NaN /\ a < b

availableHours(details) ==
    LET sleepDetail == details[1]
        sleepTime == timeRange(sleepDetail)[1]
        wakeTime == firstWord(timeRange(sleepDetail)[2])
        sleepHour == parseHours(sleepTime)
        wakeHour == parseHours(wakeTime)
    IN  IF geq(sleepHour, businessEnd) \/ lt(sleepHour, businessStart)
        THEN businessEnd - businessStart
        ELSE IF geq(wakeHour, businessStart) /\ lt(wakeHour, businessEnd)
             THEN businessEnd - wakeHour
             ELSE 0

isChoreDay(type, details) ==
    IF includes(type, <<"Night", "Shift">>) THEN FALSE
    ELSE IF includes(type, <<"Day", "Shift", "Work", "Day">>) THEN FALSE
    ELSE availableHours(details) >= 5


\* ------------------------------------------------------------------ state
Init ==
    /\ schedule = EmptySchedule
    /\ selectedDate = NULL
    /\ shiftType = "day"
    /\ last = [op |-> "none", date |-> NULL, shiftType |-> "day",
               prev |-> EmptySchedule]

handleDateChange(date) ==
    /\ selectedDate' = date
    /\ UNCHANGED <<schedule, shiftType, last>>

handleShiftTypeChange(value) ==
    /\ shiftType' = value
    /\ UNCHANGED <<schedule, selectedDate, last>>

handleAddWorkDay ==
    /\ selectedDate # NULL
    /\ workDayExists(schedule, ValueOf(selectedDate))
         \/ Len(schedule.workDays) < MaxWorkDays
    /\ schedule' = handleAddWorkDayUpdater(schedule, ValueOf(selectedDate),
                                           shiftType)
    /\ selectedDate' = NULL
    /\ last' = [op |-> "add", date |-> selectedDate, shiftType |-> shiftType,
                prev |-> schedule]
    /\ UNCHANGED shiftType

\* variant: Reset clears the work days only
handleReset_onlyWorkDays ==
    /\ hasWorkDays
    /\ schedule' = [schedule EXCEPT !.workDays = <<>>]
    /\ last' = [op |-> "reset", date |-> NULL, shiftType |-> shiftType,
                prev |-> schedule]
    /\ UNCHANGED <<selectedDate, shiftType>>

handleReset ==
    /\ hasWorkDays
    /\ schedule' = EmptySchedule
    /\ last' = [op |-> "reset", date |-> NULL, shiftType |-> shiftType,
                prev |-> schedule]
    /\ UNCHANGED <<selectedDate, shiftType>>

\* the export button: csvContent(schedule) is handed to the download, the
\* Schedule stays as it is
handleExport ==
    /\ hasWorkDays
    /\ last' = [op |-> "export", date |-> NULL, shiftType |-> shiftType,
                prev |-> schedule]
    /\ UNCHANGED <<schedule, selectedDate, shiftType>>

Next ==
    \/ \E date \in {Some(d) : d \in Dates} \cup {NULL} : handleDateChange(date)
    \/ \E value \in ShiftTypes : handleShiftTypeChange(value)
    \/ handleAddWorkDay
    \/ handleReset
    \/ handleExport

Spec == Init /\ [][Next]_vars

\* ======================================================== properties
\* set views of the Schedule
SetOf(days) == {days[i] : i \in 1..Len(days)}
WorkDates(s) == {s.workDays[i].date : i \in 1..Len(s.workDays)}
HoldsCategory(s, x) ==
    \/ x \in WorkDates(s)
    \/ x \in SetOf(s.recoveryDays)
    \/ x \in SetOf(s.preparationDays)
    \/ x \in SetOf(s.productiveDays)
    \/ x \in SetOf(s.secondJobDays)

\* every date a Schedule over Dates can mention
Calendar == (1 - 3)..(MaxDate + 2)

\* the last command was Add-Work-Day(D, T) applied to last.prev
LastWasAdd == last.op = "add"
D == ValueOf(last.date)

\* 2024-06-10 of the scenarios, as a day number of the picker
Jun10 == MaxDate - 2

\* ------------------------------------------------------ App: handleExport
\* format(date, 'MM/dd/yyyy'): the picker's day Jun10 is 06/10/2024 and the
\* days of the model lie in the same month
format(date) == [MM |-> 6, dd |-> 10 + (date - Jun10), yyyy |-> 2024]

\* details.join('; ')
join(details, sep) == [parts |-> details, sep |-> sep]

\* the rows of csvContent before they are joined with ',' and '\n': the
\* header, then one row per projected day
csvContent(s) ==
    LET exportRow(day) ==
            LET details == AppGetSleepRecommendation(s, day.date).details
                sleepTime == timeRange(details[1])[1]
                wakeTime == timeRange(details[1])[2]
            IN  <<format(day.date), day.type, sleepTime, firstWord(wakeTime),
                  join(details, "; ")>>
    IN  <<<<"Date", "Day Type", "Sleep Time", "Wake Time",
            "Recommendations">>>> \o map(AppAllScheduledDays(s), exportRow)

\* C1: in every reachable Schedule workDays (by date), recoveryDays,
\* preparationDays and productiveDays are pairwise disjoint.
C1_Disjoint ==
    /\ WorkDates(schedule) \cap SetOf(schedule.recoveryDays) = {}
    /\ WorkDates(schedule) \cap SetOf(schedule.preparationDays) = {}
    /\ WorkDates(schedule) \cap SetOf(schedule.productiveDays) = {}
    /\ SetOf(schedule.recoveryDays) \cap SetOf(schedule.preparationDays) = {}
    /\ SetOf(schedule.recoveryDays) \cap SetOf(schedule.productiveDays) = {}
    /\ SetOf(schedule.preparationDays) \cap SetOf(schedule.productiveDays) = {}

\* an add whose recovery day D+1 was already a preparation day, and whose
\* date D was itself a productive day before
C1_Witness ==
    /\ LastWasAdd
    /\ D \notin WorkDates(last.prev)
    /\ D + 1 \in SetOf(last.prev.preparationDays)
    /\ D \in SetOf(last.prev.productiveDays)
    /\ D \in WorkDates(schedule)

\* C2: for every date X in recoveryDays, Classify(X) is the Night Shift
\* Recovery Day recommendation iff the work day on X-1 is a Night shift,
\* and the Day Shift Recovery Day recommendation otherwise.
C2_RecoveryFollowsPrecedingShift ==
    \A X \in SetOf(schedule.recoveryDays) :
        LET night == \E i \in 1..Len(schedule.workDays) :
                        /\ schedule.workDays[i].date = X - 1
                        /\ schedule.workDays[i].shiftType = "night"
        IN  /\ getSleepRecommendation(schedule, X) =
                 IF night
                 THEN [recommendation |-> NightShiftRecoveryDay,
                       details |-> NightRecoveryDetails]
                 ELSE [recommendation |-> DayShiftRecoveryDay,
                       details |-> DayRecoveryDetails]
            /\ AppGetSleepRecommendation(schedule, X).details =
                 IF night THEN NightRecoveryDetails ELSE DayRecoveryDetails

\* C3: for every date X in preparationDays, Classify(X) is the Night Shift
\* Preparation Day recommendation iff the work day on X+1 is a Night shift,
\* and the Day Shift Preparation Day recommendation otherwise.
C3_PreparationFollowsNextShift ==
    \A X \in SetOf(schedule.preparationDays) :
        LET night == \E i \in 1..Len(schedule.workDays) :
                        /\ schedule.workDays[i].date = X + 1
                        /\ schedule.workDays[i].shiftType = "night"
        IN  /\ getSleepRecommendation(schedule, X) =
                 IF night
                 THEN [recommendation |-> NightShiftPreparationDay,
                       details |-> NightPreparationDetails]
                 ELSE [recommendation |-> DayShiftPreparationDay,
                       details |-> DayPreparationDetails]
            /\ AppGetSleepRecommendation(schedule, X).details =
                 IF night THEN NightPreparationDetails
                 ELSE DayPreparationDetails

\* C4: Add-Work-Day(D, T) on a Schedule that already has a work day on D
\* leaves all five sets unchanged, for either T; adding the same day a second
\* time changes nothing.
C4_DuplicateIsNoOp ==
    /\ (LastWasAdd /\ D \in WorkDates(last.prev)) => schedule = last.prev
    /\ \A d \in Dates, t \in ShiftTypes :
          LET once == handleAddWorkDayUpdater(schedule, d, t)
          IN  \A t2 \in ShiftTypes :
                 handleAddWorkDayUpdater(once, d, t2) = once

\* a duplicate add with the other shift type has happened
C4_Witness ==
    /\ LastWasAdd
    /\ \E i \in 1..Len(last.prev.workDays) :
          /\ last.prev.workDays[i].date = D
          /\ last.prev.workDays[i].shiftType # last.shiftType
    /\ Len(last.prev.workDays) >= 2

\* C5: Add-Work-Day(D, T) leaves the category of every date other than D as
\* it was; only D can leave an auxiliary set; only D+1, D-1 and D-2 can enter
\* one (recovery, preparation, productive respectively), and only when the
\* date held no category before.
C5_NonOverride ==
    LastWasAdd =>
      \A x \in Calendar :
        /\ x # D =>
             /\ \A i \in 1..Len(last.prev.workDays) :
                   last.prev.workDays[i].date = x =>
                      /\ Len(schedule.workDays) >= i
                      /\ schedule.workDays[i] = last.prev.workDays[i]
             /\ x \in WorkDates(schedule) => x \in WorkDates(last.prev)
             /\ x \in SetOf(last.prev.recoveryDays)
                   => x \in SetOf(schedule.recoveryDays)
             /\ x \in SetOf(last.prev.preparationDays)
                   => x \in SetOf(schedule.preparationDays)
             /\ x \in SetOf(last.prev.productiveDays)
                   => x \in SetOf(schedule.productiveDays)
             /\ x \in SetOf(last.prev.secondJobDays)
                   => x \in SetOf(schedule.secondJobDays)
        /\ (x \in SetOf(schedule.recoveryDays)
              /\ x \notin SetOf(last.prev.recoveryDays))
             => x = D + 1 /\ ~HoldsCategory(last.prev, x)
        /\ (x \in SetOf(schedule.preparationDays)
              /\ x \notin SetOf(last.prev.preparationDays))
             => x = D - 1 /\ ~HoldsCategory(last.prev, x)
        /\ (x \in SetOf(schedule.productiveDays)
              /\ x \notin SetOf(last.prev.productiveDays))
             => x = D - 2 /\ ~HoldsCategory(last.prev, x)
        /\ x \in SetOf(schedule.secondJobDays)
             => x \in SetOf(last.prev.secondJobDays)

\* an add that took D out of an auxiliary set, left a neighbour's category
\* alone and inserted a new auxiliary day
C5_Witness ==
    /\ LastWasAdd
    /\ D \notin WorkDates(last.prev)
    /\ D \in SetOf(last.prev.recoveryDays)
    /\ D \notin SetOf(schedule.recoveryDays)
    /\ D - 1 \in WorkDates(last.prev)
    /\ D - 2 \in SetOf(last.prev.preparationDays)
    /\ D - 2 \in SetOf(schedule.preparationDays)
    /\ D + 1 \in SetOf(schedule.recoveryDays)

\* the Schedule after Add-Work-Day(2024-06-10, Night) on the empty Schedule
ScenarioA ==
    [workDays |-> <<[date |-> Jun10, shiftType |-> "night"]>>,
     recoveryDays |-> <<Jun10 + 1>>,
     preparationDays |-> <<Jun10 - 1>>,
     productiveDays |-> <<Jun10 - 2>>,
     secondJobDays |-> <<>>]

ScenarioBHappened ==
    /\ LastWasAdd
    /\ last.prev = ScenarioA
    /\ D = Jun10 + 1
    /\ last.shiftType = "day"

\* C6 as stated: after Add-Work-Day(2024-06-10, Night) and
\* Add-Work-Day(2024-06-11, Day), 2024-06-11 is no recovery day and is a
\* Day Shift Work Day, recoveryDays is empty, and 2024-06-10 is no
\* preparation day.
C6_ScenarioB_AsStated ==
    ScenarioBHappened =>
        /\ Jun10 + 1 \notin SetOf(schedule.recoveryDays)
        /\ getSleepRecommendation(schedule, Jun10 + 1).recommendation
              = DayShiftWorkDay
        /\ schedule.recoveryDays = <<>>
        /\ Jun10 \notin SetOf(schedule.preparationDays)

\* C6 amended: as stated, except that recoveryDays holds exactly 2024-06-12,
\* the recovery day of the new work day.
C6_ScenarioB ==
    ScenarioBHappened =>
        /\ Jun10 + 1 \notin SetOf(schedule.recoveryDays)
        /\ getSleepRecommendation(schedule, Jun10 + 1).recommendation
              = DayShiftWorkDay
        /\ schedule.recoveryDays = <<Jun10 + 2>>
        /\ Jun10 \notin SetOf(schedule.preparationDays)

C6_Witness ==
    /\ ScenarioBHappened
    /\ Len(schedule.workDays) = 2

\* C7: Add-Work-Day(D, T) on the empty Schedule yields workDays = {D:T},
\* recoveryDays = {D+1}, preparationDays = {D-1}, productiveDays = {D-2},
\* secondJobDays = {}.
C7_ScenarioA ==
    (LastWasAdd /\ last.prev = EmptySchedule) =>
        /\ schedule.workDays = <<[date |-> D, shiftType |-> last.shiftType]>>
        /\ schedule.recoveryDays = <<D + 1>>
        /\ schedule.preparationDays = <<D - 1>>
        /\ schedule.productiveDays = <<D - 2>>
        /\ schedule.secondJobDays = <<>>

C7_Witness ==
    /\ LastWasAdd
    /\ last.prev = EmptySchedule
    /\ D = Jun10
    /\ last.shiftType = "night"
    /\ schedule = ScenarioA

\* C8: every recovery day is the day after a current work day, every
\* preparation day the day before one, every productive day two days before
\* one.
C8_AuxiliaryDaysHaveWorkDay ==
    /\ \A x \in SetOf(schedule.recoveryDays) : x - 1 \in WorkDates(schedule)
    /\ \A x \in SetOf(schedule.preparationDays) : x + 1 \in WorkDates(schedule)
    /\ \A x \in SetOf(schedule.productiveDays) : x + 2 \in WorkDates(schedule)

\* an add that turned an auxiliary day into a work day while other auxiliary
\* days of all three kinds remain
C8_Witness ==
    /\ LastWasAdd
    /\ D \in SetOf(last.prev.preparationDays)
    /\ D \in WorkDates(schedule)
    /\ Len(schedule.workDays) >= 2
    /\ schedule.recoveryDays # <<>>
    /\ schedule.preparationDays # <<>>
    /\ schedule.productiveDays # <<>>

\* C9: when Classify is applied to a recovery or preparation day, its search
\* for the work day finds one.
C9_FallbackNeverTaken ==
    /\ \A x \in SetOf(schedule.recoveryDays) :
          x \notin WorkDates(schedule)
             => findRecoveryWorkDay(schedule, x) # NULL
    /\ \A x \in SetOf(schedule.preparationDays) :
          (x \notin WorkDates(schedule)
             /\ x \notin SetOf(schedule.recoveryDays))
             => findPreparationWorkDay(schedule, x) # NULL

\* the hour of a clock label on the 24-hour clock
Hour24(clock) ==
    IF clock.aa = "AM" THEN (IF clock.h = 12 THEN 0 ELSE clock.h)
    ELSE (IF clock.h = 12 THEN 12 ELSE clock.h + 12)

\* 8 minus the overlap of [sleep start, wake) with [9, 17)
FreeBusinessHours(details) ==
    LET start == Hour24(details[1].from)
        wake == Hour24(details[1].to)
        asleep(h) == IF start < wake THEN start <= h /\ h < wake
                     ELSE h >= start \/ h < wake
    IN  8 - Cardinality({h \in 9..16 : asleep(h)})

\* C10: a projected date that isChoreDay flags has at least 5 hours of
\* 09:00-17:00 outside the sleep window of its recommendation.
C10_ChoreFlagSound ==
    LET rows == allScheduledDays(schedule) IN
    \A i \in 1..Len(rows) :
        LET details == getSleepRecommendation(schedule, rows[i].date).details
        IN  isChoreDay(rows[i].type, details)
               => FreeBusinessHours(details) >= 5

\* C11: Reset yields the Schedule whose five sets are all empty, which is
\* the initial Schedule.
C11_ResetClearsAll ==
    last.op = "reset" =>
        /\ schedule.workDays = <<>>
        /\ schedule.recoveryDays = <<>>
        /\ schedule.preparationDays = <<>>
        /\ schedule.productiveDays = <<>>
        /\ schedule.secondJobDays = <<>>
        /\ schedule = EmptySchedule

\* a Reset of a Schedule with several work days and auxiliary days of every
\* kind
C11_Witness ==
    /\ last.op = "reset"
    /\ Len(last.prev.workDays) >= 2
    /\ last.prev.recoveryDays # <<>>
    /\ last.prev.preparationDays # <<>>
    /\ last.prev.productiveDays # <<>>
    /\ schedule.workDays = <<>>

\* C12: the Projection is ordered by non-decreasing date, holds exactly the
\* dates of workDays, recoveryDays, preparationDays and productiveDays, each
\* once; its length is the sum of the four sizes.
ProjectionIsUnion(rows, s) ==
    /\ \A i \in 1..(Len(rows) - 1) : rows[i].date <= rows[i + 1].date
    /\ {rows[i].date : i \in 1..Len(rows)} =
          WorkDates(s) \cup SetOf(s.recoveryDays)
             \cup SetOf(s.preparationDays) \cup SetOf(s.productiveDays)
    /\ \A i, j \in 1..Len(rows) : rows[i].date = rows[j].date => i = j
    /\ Len(rows) = Cardinality(WorkDates(s))
                     + Cardinality(SetOf(s.recoveryDays))
                     + Cardinality(SetOf(s.preparationDays))
                     + Cardinality(SetOf(s.productiveDays))

\* secondJobDays contributes no row: a second-job day put into the Schedule
\* leaves the Projection as it is
C12_ProjectionSortedUnion ==
    LET rows == allScheduledDays(schedule)
        appRows == AppAllScheduledDays(schedule)
        withSecondJob == [schedule EXCEPT !.secondJobDays = <<Jun10>>]
    IN  /\ ProjectionIsUnion(rows, schedule)
        /\ ProjectionIsUnion(appRows, schedule)
        /\ allScheduledDays(withSecondJob) = rows
        /\ AppAllScheduledDays(withSecondJob) = appRows

\* a Schedule whose lists, concatenated, are out of date order, so that the
\* sort has work to do
C12_Witness ==
    /\ Len(schedule.workDays) >= 3
    /\ schedule.workDays[1].date > schedule.workDays[2].date
    /\ schedule.recoveryDays # <<>>
    /\ schedule.preparationDays # <<>>
    /\ schedule.productiveDays # <<>>
    /\ Len(allScheduledDays(schedule)) >= 5

\* the data rows of an export: csvContent without its header
DataRows(s) == Tail(csvContent(s))

ScenarioCHappened ==
    /\ last.op = "export"
    /\ schedule = ScenarioA

\* date and label of the four days of Scenario C
ScenarioCRows ==
    <<<<[MM |-> 6, dd |-> 8, yyyy |-> 2024], RegularDay>>,
      <<[MM |-> 6, dd |-> 9, yyyy |-> 2024], PreparationDayLabel>>,
      <<[MM |-> 6, dd |-> 10, yyyy |-> 2024], NightShiftWorkDay>>,
      <<[MM |-> 6, dd |-> 11, yyyy |-> 2024], RecoveryDayLabel>>>>

\* C13 as stated: the export of Scenario A's Schedule has 3 data rows, which
\* are 06-08 Regular Day, 06-09 Preparation Day, 06-10 Night Shift Work Day
\* and 06-11 Recovery Day in this order.
C13_ScenarioC_AsStated ==
    ScenarioCHappened =>
        /\ Len(DataRows(schedule)) = 3
        /\ \A i \in 1..Len(DataRows(schedule)) :
              SubSeq(DataRows(schedule)[i], 1, 2) = ScenarioCRows[i]

\* C13 amended: the export has 4 data rows, the four listed, ascending by
\* date.
C13_ScenarioC ==
    ScenarioCHappened =>
        /\ Len(DataRows(schedule)) = 4
        /\ \A i \in 1..4 :
              SubSeq(DataRows(schedule)[i], 1, 2) = ScenarioCRows[i]

C13_Witness ==
    /\ ScenarioCHappened
    /\ Len(csvContent(schedule)) = 5

\* C14: for every row of the Projection the label agrees with the category
\* Classify returns for the date: a work-day label with the work-day category
\* of the same shift, Recovery Day with one of the two recovery categories,
\* Preparation Day with one of the two preparation categories, Regular Day
\* with Regular Day.
C14_LabelsAgreeWithClassify ==
    LET rows == allScheduledDays(schedule) IN
    \A i \in 1..Len(rows) :
        LET category == getSleepRecommendation(schedule, rows[i].date)
                           .recommendation
            type == rows[i].type
        IN  /\ type = NightShiftWorkDay <=> category = NightShiftWorkDay
            /\ type = DayShiftWorkDay <=> category = DayShiftWorkDay
            /\ type = RecoveryDayLabel <=>
                  category \in {NightShiftRecoveryDay, DayShiftRecoveryDay}
            /\ type = PreparationDayLabel <=>
                  category \in {NightShiftPreparationDay,
                                DayShiftPreparationDay}
            /\ type = RegularDay <=> category = RegularDay

\* a projection with both work-day labels and all three other labels, the
\* last work day having been added on a former recovery day
C14_Witness ==
    LET rows == allScheduledDays(schedule)
        types == {rows[i].type : i \in 1..Len(rows)}
    IN  /\ LastWasAdd
        /\ D \in SetOf(last.prev.recoveryDays)
        /\ D \in WorkDates(schedule)
        /\ {NightShiftWorkDay, DayShiftWorkDay, RecoveryDayLabel,
            PreparationDayLabel, RegularDay} \subseteq types

\* C15: workDays is empty iff recoveryDays, preparationDays, productiveDays
\* and secondJobDays are all empty; when the Reset and Export controls are
\* disabled, the Schedule is the all-empty one.
C15_NoStrandedDays ==
    LET auxiliaryEmpty == /\ schedule.recoveryDays = <<>>
                          /\ schedule.preparationDays = <<>>
                          /\ schedule.productiveDays = <<>>
                          /\ schedule.secondJobDays = <<>>
    IN  /\ schedule.workDays = <<>> <=> auxiliaryEmpty
        /\ ~hasWorkDays => (schedule.workDays = <<>> /\ auxiliaryEmpty)

\* the controls are disabled again after a Schedule with auxiliary days was
\* reset
C15_Witness ==
    /\ ~hasWorkDays
    /\ last.op = "reset"
    /\ last.prev.workDays # <<>>
    /\ last.prev.recoveryDays # <<>>

====
